---- MODULE Spec2Model ----
(***************************************************************************)
(* A model of the scream unix receiver (Receivers/unix/scream.c).          *)
(*                                                                         *)
(* Spec          main(): option parsing, output (sink) initialisation,     *)
(*               receiver (transport) initialisation and the driver loop.  *)
(* SpecShmem     the shared-memory receive protocol against an external    *)
(*               writer (its code is not part of scream.c).                *)
(* SpecDelivery  the latency-bounded delivery queue (its code is not part  *)
(*               of scream.c).                                             *)
(***************************************************************************)
EXTENDS Integers, Sequences, FiniteSets, TLC

\* ------------------------------------------------------------------ bounds

\* Options getopt hands to the switch before the command line ends.
MaxOpts == 2
\* Frames the transport returns before the model stops following the loop.
MaxFrames == 3

\* --------------------------------------------------------- program constants

DEFAULT_PORT == 4010
DefaultTargetLatency == 50
DefaultMaxLatency == 200
\* sizeof(ifr.ifr_name), IFNAMSIZ
IfNameSize == 16
\* uint16_t port
PortModulus == 65536

INADDR_ANY == "INADDR_ANY"
INADDR_NONE == "INADDR_NONE"
NULL == "NULL"

VARIABLES
  \* build configuration (config.h)
  PULSEAUDIO_ENABLE, ALSA_ENABLE,
  \* main's position, the process exit status, options consumed so far
  pc, exit_status, nopts, given,
  \* main's locals set by the command line
  receiver_mode, output_mode, multicast_group, ivshmem_device,
  alsa_device, stream_name, target_latency_ms, max_latency_ms,
  interface, port, verbosity,
  \* the function pointers and the calls made to the backends
  output_send_fn, receiver_rcv_fn, sink_inits, transport_inits,
  \* the driver loop: the frame buffer, and the calls made so far
  receiver_data, rcvd, sent,
  \* the shared-memory segment: the head counter, the ring slots, the writer
  head, slots, w_seq, w_pc,
  \* the shared-memory receiver: its cursor, its position in the receive call,
  \* its copy of the slot, the overruns counted, the frames returned, the reads
  \* that began on a slot stamped for another sequence than the expected one
  \* (and whether the read in progress is one), and the resynchronisations
  expected_sequence, r_pc, snapshot, overruns, returned, overwritten_reads,
  began_overwritten, resyncs,
  \* the delivery queue: the frames queued, the format of the previous frame,
  \* the sink reconfigurations, the frames dropped and played, the arrivals,
  \* and whether the last arrival was only enqueued or made the queue drop
  queue, prev_format, reconfigurations, dropped, played, arrivals, last_decision

buildVars == <<PULSEAUDIO_ENABLE, ALSA_ENABLE>>
optVars == <<receiver_mode, output_mode, multicast_group, ivshmem_device,
             alsa_device, stream_name, target_latency_ms, max_latency_ms,
             interface, port, verbosity>>
initVars == <<output_send_fn, receiver_rcv_fn, sink_inits, transport_inits>>
loopVars == <<receiver_data, rcvd, sent>>
mainVars == <<buildVars, pc, exit_status, nopts, given, optVars, initVars, loopVars>>
writerVars == <<head, slots, w_seq, w_pc>>
readerVars == <<expected_sequence, r_pc, snapshot, overruns, returned,
                overwritten_reads, began_overwritten, resyncs>>
shmVars == <<writerVars, readerVars>>
dlvVars == <<queue, prev_format, reconfigurations, dropped, played, arrivals,
             last_decision>>
\* What main itself never touches.
extVars == <<shmVars, dlvVars>>
vars == <<mainVars, shmVars, dlvVars>>

\* ------------------------------------------------------ command-line strings

\* An option argument is the tuple of its characters.
Digits == {"0", "1", "2", "3", "4", "5", "6", "7", "8", "9"}

DigitVal(c) ==
  CASE c = "0" -> 0 [] c = "1" -> 1 [] c = "2" -> 2 [] c = "3" -> 3
    [] c = "4" -> 4 [] c = "5" -> 5 [] c = "6" -> 6 [] c = "7" -> 7
    [] c = "8" -> 8 [] c = "9" -> 9

\* The vertical tab (0x0B), which has no escape: the string holds the character.
VT == ""

\* The characters isspace accepts in the C locale.
WhiteSpace == {" ", "\t", "\n", VT, "\f", "\r"}

RECURSIVE SkipSpace(_, _)
SkipSpace(s, i) ==
  IF i <= Len(s) /\ s[i] \in WhiteSpace THEN SkipSpace(s, i + 1) ELSE i

\* atoi is (int) strtol(s, NULL, 10) with a 64-bit long. The magnitude strtol
\* accumulates is kept as four 16-bit limbs, least significant first, with
\* `over` set once it passed 64 bits, so that no intermediate value leaves
\* the range of the integers the model computes with.
Limb == 65536
HalfLimb == 32768
ZeroMagnitude == [l |-> <<0, 0, 0, 0>>, over |-> FALSE]

Times10Plus(m, d) ==
  LET t1 == m.l[1] * 10 + d
      t2 == m.l[2] * 10 + (t1 \div Limb)
      t3 == m.l[3] * 10 + (t2 \div Limb)
      t4 == m.l[4] * 10 + (t3 \div Limb)
  IN [l |-> <<t1 % Limb, t2 % Limb, t3 % Limb, t4 % Limb>>,
      over |-> m.over \/ t4 >= Limb]

\* The leading decimal digits of s from position i on, added to acc.
RECURSIVE AtoiDigits(_, _, _)
AtoiDigits(s, i, acc) ==
  IF i > Len(s) \/ s[i] \notin Digits
    THEN acc
    ELSE AtoiDigits(s, i + 1, Times10Plus(acc, DigitVal(s[i])))

\* The 32-bit pattern hi:lo read as an int.
Signed32(hi, lo) ==
  IF hi >= HalfLimb THEN (hi - Limb) * Limb + lo ELSE hi * Limb + lo

\* The long strtol returns for magnitude m, cut to an int: a magnitude out of
\* the range of long is clamped to LONG_MAX (low 32 bits all ones) or
\* LONG_MIN (low 32 bits zero) first.
ToInt(negative, m) ==
  LET clamped == m.over \/ m.l[4] >= HalfLimb
      lo == m.l[1]
      hi == m.l[2]
  IN IF ~negative
       THEN IF clamped THEN -1 ELSE Signed32(hi, lo)
       ELSE IF clamped THEN 0
            ELSE Signed32((Limb - hi - (IF lo = 0 THEN 0 ELSE 1)) % Limb,
                          (Limb - lo) % Limb)

\* atoi: leading white space, an optional sign, then the leading decimal
\* digits; 0 when there are none.
Atoi(s) ==
  LET i == SkipSpace(s, 1) IN
    IF i > Len(s) THEN 0
    ELSE IF s[i] = "-" THEN ToInt(TRUE, AtoiDigits(s, i + 1, ZeroMagnitude))
    ELSE IF s[i] = "+" THEN ToInt(FALSE, AtoiDigits(s, i + 1, ZeroMagnitude))
    ELSE ToInt(FALSE, AtoiDigits(s, i, ZeroMagnitude))

\* Arguments tried for -p, -t and -l.
PortArgs ==
  { <<"5", "0", "0", "0">>, <<"0">>, <<"6", "5", "5", "3", "6">>, <<"x">>,
    <<" ", "8", "0">>, <<"4", "2", "9", "4", "9", "6", "7", "2", "9", "7">> }
TargetArgs ==
  { <<"0">>, <<"1", "0">>, <<"3", "0", "0">>, <<"-", "1">>, <<" ", "5">>,
    <<"3", "0", "0", "0", "0", "0", "0", "0", "0", "0">> }
MaxArgs ==
  { <<"0">>, <<"1", "4">>, <<"-", "5">>, <<"\t", "-", "3">>, <<" ", VT, "1", "4">> }

\* An argument of -i with what the system answers for it: inet_addr's result,
\* the name's length, and the address SIOCGIFADDR gives (NULL: the ioctl fails).
InterfaceArgs ==
  { [text |-> "192.168.1.5", len |-> 11, inet_addr |-> "192.168.1.5", ifaddr |-> NULL],
    [text |-> "eth0", len |-> 4, inet_addr |-> INADDR_NONE, ifaddr |-> "10.0.0.2"],
    [text |-> "bogus0", len |-> 6, inet_addr |-> INADDR_NONE, ifaddr |-> NULL],
    [text |-> "averyveryverylongname", len |-> 21, inet_addr |-> INADDR_NONE,
     ifaddr |-> NULL] }

OutputArgs == {"pulse", "alsa", "raw", "jack"}

\* The status of a process a SIGSEGV killed.
KilledBySegv == -11

\* get_interface's error_exit: it lists if_nameindex()'s result and calls
\* exit(1); it reads that result without testing it, so when if_nameindex()
\* failed (ni_ok false) the NULL is dereferenced and the process crashes.
error_exit(ni_ok) == IF ni_ok THEN "exit" ELSE "crash"

\* get_interface: the address, or how the process ends in it.
get_interface(name, ni_ok) ==
  IF name.inet_addr # INADDR_NONE THEN name.inet_addr
  ELSE IF name.len >= IfNameSize THEN error_exit(ni_ok)
  ELSE IF name.ifaddr = NULL THEN error_exit(ni_ok)
  ELSE name.ifaddr

\* ------------------------------------------------------------------- main

DefaultOutputMode ==
  IF PULSEAUDIO_ENABLE THEN "Pulseaudio"
  ELSE IF ALSA_ENABLE THEN "Alsa"
  ELSE "Raw"

\* The uninitialised receiver_data: no frame.
NoFrame == [id |-> 0]

\* No format seen yet, and a slot of a segment nothing was written to yet.
NoFormat == [sample_rate |-> 0, sample_bits |-> 0, channels |-> 0]
EmptySlot == [sequence |-> 0, payload |-> -1]

\* The segment and the queue before anything used them.
ShmIdle ==
  /\ head = 0
  /\ slots = << >>
  /\ w_seq = 0
  /\ w_pc = "write"
  /\ expected_sequence = 0
  /\ r_pc = "wait"
  /\ snapshot = EmptySlot
  /\ overruns = 0
  /\ returned = << >>
  /\ overwritten_reads = 0
  /\ began_overwritten = FALSE
  /\ resyncs = << >>

DeliveryIdle ==
  /\ queue = << >>
  /\ prev_format = NoFormat
  /\ reconfigurations = 0
  /\ dropped = << >>
  /\ played = << >>
  /\ arrivals = 0
  /\ last_decision = "none"

Init ==
  /\ ShmIdle
  /\ DeliveryIdle
  /\ PULSEAUDIO_ENABLE \in BOOLEAN
  /\ ALSA_ENABLE \in BOOLEAN
  /\ pc = "getopt"
  /\ exit_status = 0
  /\ nopts = 0
  /\ given = {}
  /\ receiver_mode = "Multicast"
  /\ output_mode = DefaultOutputMode
  /\ multicast_group = NULL
  /\ ivshmem_device = NULL
  /\ alsa_device = "default"
  /\ stream_name = "Audio"
  /\ target_latency_ms = DefaultTargetLatency
  /\ max_latency_ms = DefaultMaxLatency
  /\ interface = INADDR_ANY
  /\ port = DEFAULT_PORT
  /\ verbosity = 0
  /\ output_send_fn = NULL
  /\ receiver_rcv_fn = NULL
  /\ sink_inits = << >>
  /\ transport_inits = << >>
  /\ receiver_data = NoFrame
  /\ rcvd = << >>
  /\ sent = << >>

\* show_usage, every exit(1) / return 1 of main, and a crash: the process ends.
Exit(status) ==
  /\ pc' = "exit"
  /\ exit_status' = status

\* getopt returned option `letter`.
Took(letter) ==
  /\ pc = "getopt"
  /\ nopts < MaxOpts
  /\ nopts' = nopts + 1
  /\ given' = given \cup {letter}

Continue == UNCHANGED <<pc, exit_status>>

OptI ==
  \E name \in InterfaceArgs, ni_ok \in BOOLEAN :
    /\ Took("i")
    /\ CASE get_interface(name, ni_ok) = "exit" ->
             Exit(1) /\ UNCHANGED interface
         [] get_interface(name, ni_ok) = "crash" ->
             Exit(KilledBySegv) /\ UNCHANGED interface
         [] OTHER ->
             Continue /\ interface' = get_interface(name, ni_ok)
    /\ UNCHANGED <<extVars, buildVars, receiver_mode, output_mode, multicast_group,
                   ivshmem_device, alsa_device, stream_name, target_latency_ms,
                   max_latency_ms, port, verbosity, initVars, loopVars>>

\* port = atoi(optarg), stored in a uint16_t.
ParsePort(arg) == Atoi(arg) % PortModulus

OptP ==
  \E arg \in PortArgs :
    /\ Took("p")
    /\ port' = ParsePort(arg)
    /\ IF port' = 0 THEN Exit(1) ELSE Continue
    /\ UNCHANGED <<extVars, buildVars, receiver_mode, output_mode, multicast_group,
                   ivshmem_device, alsa_device, stream_name, target_latency_ms,
                   max_latency_ms, interface, verbosity, initVars, loopVars>>

OptU ==
  /\ Took("u")
  /\ receiver_mode' = "Unicast"
  /\ Continue
  /\ UNCHANGED <<extVars, buildVars, output_mode, multicast_group, ivshmem_device,
                 alsa_device, stream_name, target_latency_ms, max_latency_ms,
                 interface, port, verbosity, initVars, loopVars>>

OptG ==
  /\ Took("g")
  /\ multicast_group' = "239.1.2.3"
  /\ Continue
  /\ UNCHANGED <<extVars, buildVars, receiver_mode, output_mode, ivshmem_device,
                 alsa_device, stream_name, target_latency_ms, max_latency_ms,
                 interface, port, verbosity, initVars, loopVars>>

OptM ==
  /\ Took("m")
  /\ receiver_mode' = "SharedMem"
  /\ ivshmem_device' = "/dev/shm/scream-ivshmem"
  /\ Continue
  /\ UNCHANGED <<extVars, buildVars, output_mode, multicast_group, alsa_device,
                 stream_name, target_latency_ms, max_latency_ms, interface,
                 port, verbosity, initVars, loopVars>>

\* The strcmp chain of -o: an unknown name leaves output_mode as it was.
SelectOutput(arg, old) ==
  IF arg = "pulse" THEN "Pulseaudio"
  ELSE IF arg = "alsa" THEN "Alsa"
  ELSE IF arg = "raw" THEN "Raw"
  ELSE old

OptO ==
  \E arg \in OutputArgs :
    /\ Took("o")
    /\ output_mode' = SelectOutput(arg, output_mode)
    /\ Continue
    /\ UNCHANGED <<extVars, buildVars, receiver_mode, multicast_group, ivshmem_device,
                   alsa_device, stream_name, target_latency_ms, max_latency_ms,
                   interface, port, verbosity, initVars, loopVars>>

OptD ==
  /\ Took("d")
  /\ alsa_device' = "hw:1"
  /\ Continue
  /\ UNCHANGED <<extVars, buildVars, receiver_mode, output_mode, multicast_group,
                 ivshmem_device, stream_name, target_latency_ms, max_latency_ms,
                 interface, port, verbosity, initVars, loopVars>>

OptN ==
  /\ Took("n")
  /\ stream_name' = "Scream"
  /\ Continue
  /\ UNCHANGED <<extVars, buildVars, receiver_mode, output_mode, multicast_group,
                 ivshmem_device, alsa_device, target_latency_ms, max_latency_ms,
                 interface, port, verbosity, initVars, loopVars>>

\* A variant of case 't' without its break: it runs on into case 'l'.
OptTFallsThrough ==
  \E arg \in TargetArgs :
    /\ Took("t")
    /\ target_latency_ms' = Atoi(arg)
    /\ max_latency_ms' = Atoi(arg)
    /\ IF target_latency_ms' < 0 THEN Exit(1) ELSE Continue
    /\ UNCHANGED <<extVars, buildVars, receiver_mode, output_mode, multicast_group,
                   ivshmem_device, alsa_device, stream_name,
                   interface, port, verbosity, initVars, loopVars>>

OptT ==
  \E arg \in TargetArgs :
    /\ Took("t")
    /\ target_latency_ms' = Atoi(arg)
    /\ IF target_latency_ms' < 0 THEN Exit(1) ELSE Continue
    /\ UNCHANGED <<extVars, buildVars, receiver_mode, output_mode, multicast_group,
                   ivshmem_device, alsa_device, stream_name, max_latency_ms,
                   interface, port, verbosity, initVars, loopVars>>

OptL ==
  \E arg \in MaxArgs :
    /\ Took("l")
    /\ max_latency_ms' = Atoi(arg)
    /\ IF max_latency_ms' < 0 THEN Exit(1) ELSE Continue
    /\ UNCHANGED <<extVars, buildVars, receiver_mode, output_mode, multicast_group,
                   ivshmem_device, alsa_device, stream_name, target_latency_ms,
                   interface, port, verbosity, initVars, loopVars>>

OptV ==
  /\ Took("v")
  /\ verbosity' = verbosity + 1
  /\ Continue
  /\ UNCHANGED <<extVars, buildVars, receiver_mode, output_mode, multicast_group,
                 ivshmem_device, alsa_device, stream_name, target_latency_ms,
                 max_latency_ms, interface, port, initVars, loopVars>>

\* -h, or an option getopt does not know: show_usage.
OptDefault ==
  /\ Took("h")
  /\ Exit(1)
  /\ UNCHANGED <<extVars, buildVars, optVars, initVars, loopVars>>

\* getopt returned -1; a word left after the options (optind < argc) is an error.
OptEnd ==
  \E extra \in BOOLEAN :
    /\ pc = "getopt"
    /\ IF extra
         THEN Exit(1)
         ELSE pc' = "output_init" /\ UNCHANGED exit_status
    /\ UNCHANGED <<extVars, buildVars, nopts, given, optVars, initVars, loopVars>>

\* ---- initialize output (the switch on output_mode)

\* Whether the build holds the backend output_mode selects (#if ..._ENABLE).
SinkCompiled(mode) ==
  CASE mode = "Pulseaudio" -> PULSEAUDIO_ENABLE
    [] mode = "Alsa" -> ALSA_ENABLE
    [] mode = "Raw" -> TRUE

\* A variant that hands every backend's arguments over in the wrong order.
SinkInitCallSwapped(mode) ==
  CASE mode = "Pulseaudio" ->
         [fn |-> "pulse_output_init",
          ints |-> <<max_latency_ms, target_latency_ms>>,
          strs |-> <<stream_name>>]
    [] mode = "Alsa" ->
         [fn |-> "alsa_output_init",
          ints |-> <<max_latency_ms>>,
          strs |-> <<alsa_device>>]
    [] mode = "Raw" ->
         [fn |-> "raw_output_init", ints |-> << >>, strs |-> << >>]

\* The init call main makes for `mode`: the function, its integer arguments
\* and its string arguments, each in the order of the call.
SinkInitCall(mode) ==
  CASE mode = "Pulseaudio" ->
         [fn |-> "pulse_output_init",
          ints |-> <<target_latency_ms, max_latency_ms>>,
          strs |-> <<stream_name>>]
    [] mode = "Alsa" ->
         [fn |-> "alsa_output_init",
          ints |-> <<target_latency_ms>>,
          strs |-> <<alsa_device>>]
    [] mode = "Raw" ->
         [fn |-> "raw_output_init", ints |-> << >>, strs |-> << >>]

SendFn(mode) ==
  CASE mode = "Pulseaudio" -> "pulse_output_send"
    [] mode = "Alsa" -> "alsa_output_send"
    [] mode = "Raw" -> "raw_output_send"

\* What an init of the sink may return: 0 is success.
InitResults == {0, 1, -1}

\* if (..._output_init(...) != 0) return 1;
AfterSinkInit(result) == IF result # 0 THEN "exit" ELSE "receiver_init"

OutputInit ==
  /\ pc = "output_init"
  /\ IF ~SinkCompiled(output_mode)
       THEN /\ Exit(1)
            /\ UNCHANGED <<sink_inits, output_send_fn>>
       ELSE \E result \in InitResults :
              /\ sink_inits' =
                   Append(sink_inits, [call |-> SinkInitCall(output_mode),
                                       result |-> result])
              /\ pc' = AfterSinkInit(result)
              /\ exit_status' = IF pc' = "exit" THEN 1 ELSE exit_status
              /\ output_send_fn' =
                   IF pc' = "exit" THEN output_send_fn ELSE SendFn(output_mode)
  /\ UNCHANGED <<extVars, buildVars, nopts, given, optVars, receiver_rcv_fn,
                 transport_inits, loopVars>>

\* ---- initialize receiver (the switch on receiver_mode)

TransportInitCall ==
  IF receiver_mode = "SharedMem"
    THEN [fn |-> "init_shmem", device |-> ivshmem_device]
    ELSE [fn |-> "init_network", mode |-> receiver_mode, interface |-> interface,
          port |-> port, group |-> multicast_group]

RcvFn(mode) == IF mode = "SharedMem" THEN "rcv_shmem" ELSE "rcv_network"

\* init_shmem(...) / init_network(...) is called as a statement: main tests no
\* outcome of it, sets the receive function and goes on to the loop. What the
\* two functions do when the setup fails is not in scream.c; the action is the
\* call that returns.
ReceiverInit ==
  /\ pc = "receiver_init"
  /\ transport_inits' = Append(transport_inits, [call |-> TransportInitCall])
  /\ receiver_rcv_fn' = RcvFn(receiver_mode)
  /\ pc' = "rcv"
  /\ UNCHANGED <<extVars, buildVars, exit_status, nopts, given, optVars,
                 output_send_fn, sink_inits, loopVars>>

\* ---- for (;;) { receiver_rcv_fn(&receiver_data); if (output_send_fn(...) != 0) return 1; }

\* What a receive call may meet and recover from inside, before it returns a
\* frame: a malformed datagram dropped, a ring overrun resynchronised.
RecoverableIn(fn) ==
  IF fn = "rcv_shmem" THEN {"none", "overrun"} ELSE {"none", "malformed"}

\* A variant in which a condition met inside the receive ends the loop.
AfterReceiveAbortsOnCondition(cond) == IF cond = "none" THEN "send" ELSE "exit"

\* The receive function returns void: whatever happened inside, the statement
\* after the call is the send.
AfterReceive(cond) == "send"

Receive ==
  \E cond \in RecoverableIn(receiver_rcv_fn) :
    /\ pc = "rcv"
    /\ Len(rcvd) < MaxFrames
    /\ receiver_data' = [id |-> Len(rcvd) + 1, by |-> receiver_rcv_fn]
    /\ rcvd' = Append(rcvd, [frame |-> receiver_data', cond |-> cond])
    /\ pc' = AfterReceive(cond)
    /\ UNCHANGED <<extVars, buildVars, exit_status, nopts, given, optVars, initVars,
                   sent>>

\* What a send may return: 0 is ok, anything else is fatal.
SendResults == {0, 1, -1}

\* Variants of the test after the send: one sends the same buffer again, one
\* ignores the status, one has the test inverted, one sets the transport up
\* again on every iteration.
AfterSendResends(status) == IF status # 0 THEN "exit" ELSE "send"
AfterSendIgnoresFatal(status) == "rcv"
AfterSendInverted(status) == IF status = 0 THEN "exit" ELSE "rcv"
AfterSendReinitialises(status) == IF status # 0 THEN "exit" ELSE "receiver_init"

\* if (output_send_fn(&receiver_data) != 0) return 1;
AfterSend(status) == IF status # 0 THEN "exit" ELSE "rcv"

Send ==
  \E status \in SendResults :
    /\ pc = "send"
    /\ sent' = Append(sent, [frame |-> receiver_data, fn |-> output_send_fn,
                             status |-> status])
    /\ pc' = AfterSend(status)
    /\ exit_status' = IF pc' = "exit" THEN 1 ELSE exit_status
    /\ UNCHANGED <<extVars, buildVars, nopts, given, optVars, initVars, receiver_data,
                   rcvd>>

Next ==
  \/ OptI \/ OptP \/ OptU \/ OptG \/ OptM \/ OptO \/ OptD \/ OptN \/ OptT
  \/ OptL \/ OptV \/ OptDefault \/ OptEnd
  \/ OutputInit \/ ReceiverInit \/ Receive \/ Send

Spec == Init /\ [][Next]_vars

\* ------------------------------------------------------- properties of main

InLoop == pc \in {"rcv", "send"}
LastSent == sent[Len(sent)]

\* C1: receive and send strictly alternate, starting with a receive: the k-th
\* send is made on the frame the k-th receive filled, every received frame is
\* sent exactly once and in arrival order, and no receive happens while the
\* previous frame is unsent.
C1_SendFollowsReceive ==
  /\ Len(sent) <= Len(rcvd)
  /\ Len(rcvd) <= Len(sent) + 1
  /\ \A k \in 1..Len(sent) : sent[k].frame = rcvd[k].frame
  /\ \A j, k \in 1..Len(rcvd) : j # k => rcvd[j].frame # rcvd[k].frame
  /\ pc = "rcv" => Len(rcvd) = Len(sent)
  /\ pc = "send" => /\ Len(rcvd) = Len(sent) + 1
                    /\ receiver_data = rcvd[Len(rcvd)].frame

C1_Witness == pc = "rcv" /\ Len(sent) >= 2

\* C2: a send that returns non-zero is the last call the loop makes: the
\* process has ended with a non-zero status and no send or receive follows it.
C2_FatalSendTerminates ==
  \A k \in 1..Len(sent) :
    sent[k].status # 0 =>
      /\ k = Len(sent)
      /\ Len(rcvd) = k
      /\ pc = "exit"
      /\ exit_status # 0

C2_Witness == Len(sent) >= 2 /\ LastSent.status # 0 /\ pc = "exit"

\* C3: after a send that returned 0 the loop is at the next receive and can
\* take it (the loop is never stuck short of the frames followed here), and
\* once a frame has been received the process ends only after a send that
\* returned non-zero, never with status 0.
C3_OkSendContinues ==
  /\ (InLoop /\ ~(pc = "rcv" /\ Len(rcvd) >= MaxFrames)) => ENABLED (Receive \/ Send)
  /\ (Len(sent) > 0 /\ LastSent.status = 0) => pc \in {"rcv", "send"}
  /\ (Len(sent) > 0 /\ LastSent.status = 0 /\ Len(rcvd) = Len(sent)) => pc = "rcv"
  /\ (pc = "exit" /\ Len(rcvd) > 0) =>
       /\ Len(sent) > 0
       /\ LastSent.status # 0
       /\ exit_status # 0

C3_Witness ==
  /\ pc = "rcv"
  /\ Len(sent) >= 2
  /\ \A k \in 1..Len(sent) : sent[k].status = 0

\* What main's code settles about an initialisation failure: a failed sink
\* init, or a backend the build lacks, ends the process with status 1 before
\* the transport is initialised and before any receive or send. Whether a
\* failed transport setup ends the process is decided inside init_network and
\* init_shmem, which main calls without testing an outcome.
SinkInitFailed == \E k \in 1..Len(sink_inits) : sink_inits[k].result # 0
SinkNotCompiled == pc \notin {"getopt", "output_init"} /\ ~SinkCompiled(output_mode)

SinkInitFailureAborts ==
  (SinkInitFailed \/ SinkNotCompiled) =>
    /\ pc = "exit"
    /\ exit_status # 0
    /\ SinkInitFailed => exit_status = 1
    /\ transport_inits = << >>
    /\ rcvd = << >>
    /\ sent = << >>

EnteredLoopAfterSetupCall ==
  (InLoop \/ Len(rcvd) > 0) => Len(transport_inits) = 1 /\ ~SinkInitFailed

\* C5: a condition the receive met and recovered from inside does not reach the
\* loop: the frame that call returned is sent once, the loop does not end
\* because of it, and the transport is not set up again.
C5_RecoverableNeverSurfaces ==
  \A k \in 1..Len(rcvd) :
    rcvd[k].cond # "none" =>
      /\ Len(transport_inits) = 1
      /\ IF k = Len(rcvd) /\ pc = "send"
           THEN Len(sent) = k - 1
           ELSE /\ Len(sent) >= k
                /\ sent[k].frame = rcvd[k].frame
                /\ \A j \in 1..Len(sent) : j # k => sent[j].frame # rcvd[k].frame
                /\ pc = "exit" => LastSent.status # 0

C5_Witness ==
  /\ pc = "rcv"
  /\ \E j, k \in 1..Len(rcvd) : rcvd[j].cond = "malformed" /\ j < k

\* C6 as stated: every backend's init gets the target latency, the maximum
\* latency and a name or device.
C6_EveryInitGetsMaxLatency ==
  \A k \in 1..Len(sink_inits) :
    /\ sink_inits[k].call.ints = <<target_latency_ms, max_latency_ms>>
    /\ Len(sink_inits[k].call.strs) = 1

\* C6 amended: the PulseAudio init gets the target latency, the maximum latency
\* and the stream name; the ALSA init gets the target latency and the device
\* only; the raw init gets nothing.
C6_InitArgumentsPerBackend ==
  \A k \in 1..Len(sink_inits) :
    LET c == sink_inits[k].call IN
      /\ output_mode = "Pulseaudio" =>
           /\ c.fn = "pulse_output_init"
           /\ c.ints = <<target_latency_ms, max_latency_ms>>
           /\ c.strs = <<stream_name>>
      /\ output_mode = "Alsa" =>
           /\ c.fn = "alsa_output_init"
           /\ c.ints = <<target_latency_ms>>
           /\ c.strs = <<alsa_device>>
      /\ output_mode = "Raw" =>
           /\ c.fn = "raw_output_init"
           /\ c.ints = << >>
           /\ c.strs = << >>

C6_Witness ==
  /\ output_mode = "Alsa"
  /\ "l" \in given
  /\ max_latency_ms # DefaultMaxLatency
  /\ Len(sink_inits) = 1
  /\ InLoop

DefaultTransportInit ==
  [fn |-> "init_network", mode |-> "Multicast", interface |-> INADDR_ANY,
   port |-> DEFAULT_PORT, group |-> NULL]

OnlyOwnOptionChanges ==
  /\ ("u" \notin given /\ "m" \notin given) => receiver_mode = "Multicast"
  /\ "p" \notin given => port = DEFAULT_PORT
  /\ "i" \notin given => interface = INADDR_ANY
  /\ "g" \notin given => multicast_group = NULL
  /\ "t" \notin given => target_latency_ms = DefaultTargetLatency
  /\ "l" \notin given => max_latency_ms = DefaultMaxLatency

\* C9 as stated: with no options the transport is set up multicast on port
\* 4010, any interface, default group, and the sink's init gets 50 and 200.
C9_DefaultsReachSink ==
  /\ OnlyOwnOptionChanges
  /\ given = {} =>
       /\ \A k \in 1..Len(transport_inits) :
            transport_inits[k].call = DefaultTransportInit
       /\ \A k \in 1..Len(sink_inits) :
            sink_inits[k].call.ints = <<DefaultTargetLatency, DefaultMaxLatency>>

\* C9 amended: with no options the transport is set up multicast on port 4010,
\* any interface, default group, and the configured latencies are 50 and 200;
\* the sink's init gets those of them its backend takes (both for PulseAudio,
\* the target for ALSA, none for raw). Each value changes only with its option.
C9_DefaultsAsBackendTakes ==
  /\ OnlyOwnOptionChanges
  /\ given = {} =>
       /\ \A k \in 1..Len(transport_inits) :
            transport_inits[k].call = DefaultTransportInit
       /\ \A k \in 1..Len(sink_inits) :
            sink_inits[k].call.ints =
              CASE sink_inits[k].call.fn = "pulse_output_init" ->
                     <<DefaultTargetLatency, DefaultMaxLatency>>
                [] sink_inits[k].call.fn = "alsa_output_init" ->
                     <<DefaultTargetLatency>>
                [] sink_inits[k].call.fn = "raw_output_init" -> << >>

C9_Witness ==
  /\ given = {}
  /\ InLoop
  /\ Len(transport_inits) = 1
  /\ Len(sink_inits) = 1
  /\ sink_inits[1].call.fn = "pulse_output_init"

\* C10: the sink and the transport are each set up exactly once, before the
\* first receive, and every receive and send of the loop goes through the
\* function chosen then.
C10_SelectedOnce ==
  /\ Len(sink_inits) <= 1
  /\ Len(transport_inits) <= 1
  /\ (InLoop \/ Len(rcvd) > 0) =>
       /\ Len(sink_inits) = 1
       /\ Len(transport_inits) = 1
       /\ receiver_rcv_fn =
            (IF transport_inits[1].call.fn = "init_shmem"
               THEN "rcv_shmem" ELSE "rcv_network")
       /\ output_send_fn =
            (CASE sink_inits[1].call.fn = "pulse_output_init" -> "pulse_output_send"
               [] sink_inits[1].call.fn = "alsa_output_init" -> "alsa_output_send"
               [] sink_inits[1].call.fn = "raw_output_init" -> "raw_output_send")
       /\ \A k \in 1..Len(rcvd) : rcvd[k].frame.by = receiver_rcv_fn
       /\ \A k \in 1..Len(sent) : sent[k].fn = output_send_fn

C10_Witness == pc = "rcv" /\ Len(sent) >= 2 /\ receiver_rcv_fn = "rcv_shmem"

\* ------------------------------------------------- shared-memory receiver

\* Slots of the ring, and writes the producer makes before the model stops
\* following it.
RingSlots == 2
MaxWrites == 5

SlotIndices == 0..(RingSlots - 1)

\* The slot as the producer leaves it after writing sequence s: the sequence
\* stamp and the payload written with it (named by the sequence it belongs to).
WrittenSlot(s) == [sequence |-> s, payload |-> s]

\* The ring after the producer published sequences 0..h-1.
RingAfter(h) ==
  [i \in SlotIndices |->
     LET written == {q \in 0..(h - 1) : q % RingSlots = i} IN
       IF written = {} THEN EmptySlot
       ELSE WrittenSlot(CHOOSE q \in written : \A r \in written : r <= q)]

\* main as it stands at the head of the loop, with receiver mode `mode` and
\* output `out` set up and the latencies as the command line left them.
MainAtLoop(mode, out) ==
  /\ PULSEAUDIO_ENABLE = TRUE
  /\ ALSA_ENABLE = TRUE
  /\ pc = "rcv"
  /\ exit_status = 0
  /\ multicast_group = NULL
  /\ alsa_device = "default"
  /\ stream_name = "Audio"
  /\ interface = INADDR_ANY
  /\ port = DEFAULT_PORT
  /\ verbosity = 0
  /\ receiver_mode = mode
  /\ output_mode = out
  /\ ivshmem_device = IF mode = "SharedMem" THEN "/dev/shm/scream-ivshmem" ELSE NULL
  /\ output_send_fn = SendFn(out)
  /\ receiver_rcv_fn = RcvFn(mode)
  /\ sink_inits = << [call |-> SinkInitCall(out), result |-> 0] >>
  /\ transport_inits = << [call |-> TransportInitCall] >>
  /\ receiver_data = NoFrame
  /\ rcvd = << >>
  /\ sent = << >>

\* init_shmem: the receiver attaches to a segment the producer may have been
\* writing for a while, and starts live: its cursor is the producer's head.
InitShmem ==
  /\ target_latency_ms = DefaultTargetLatency
  /\ max_latency_ms = DefaultMaxLatency
  /\ MainAtLoop("SharedMem", "Raw")
  /\ nopts = 2
  /\ given = {"m", "o"}
  /\ DeliveryIdle
  /\ head \in {0, 1}
  /\ slots = RingAfter(head)
  /\ w_seq = head
  /\ w_pc = "write"
  /\ expected_sequence = head
  /\ r_pc = "wait"
  /\ snapshot = EmptySlot
  /\ overruns = 0
  /\ returned = << >>
  /\ overwritten_reads = 0
  /\ began_overwritten = FALSE
  /\ resyncs = << >>

\* The slot the producer is writing, and the slot the receiver is reading.
WriterSlot == w_seq % RingSlots
ReaderSlot == expected_sequence % RingSlots

\* The external producer writes slot (seq mod N). The stamp and the payload
\* are two writes to the segment, and nothing states the order the producer
\* makes them in: either may come first, and the receiver's reads may fall
\* between them.
WriterStamp ==
  /\ w_pc \in {"write", "filled"}
  /\ w_seq < MaxWrites
  /\ slots' = [slots EXCEPT ![WriterSlot].sequence = w_seq]
  /\ w_pc' = IF w_pc = "write" THEN "stamped" ELSE "publish"
  /\ UNCHANGED <<mainVars, dlvVars, readerVars, head, w_seq>>

WriterFill ==
  /\ w_pc \in {"write", "stamped"}
  /\ w_seq < MaxWrites
  /\ slots' = [slots EXCEPT ![WriterSlot].payload = w_seq]
  /\ w_pc' = IF w_pc = "write" THEN "filled" ELSE "publish"
  /\ UNCHANGED <<mainVars, dlvVars, readerVars, head, w_seq>>

\* ... and increments the shared head counter.
WriterPublish ==
  /\ w_pc = "publish"
  /\ head' = head + 1
  /\ w_seq' = w_seq + 1
  /\ w_pc' = "write"
  /\ UNCHANGED <<mainVars, dlvVars, readerVars, slots>>

\* The receive call waits until head > expected_sequence. began_overwritten
\* notes whether, at the instant the wait ends and the read begins, the slot
\* already carries the stamp of another sequence.
ShmWait ==
  /\ r_pc = "wait"
  /\ head > expected_sequence
  /\ r_pc' = "read"
  /\ began_overwritten' = (slots[ReaderSlot].sequence # expected_sequence)
  /\ overwritten_reads' =
       IF began_overwritten' THEN overwritten_reads + 1 ELSE overwritten_reads
  /\ UNCHANGED <<mainVars, dlvVars, writerVars, expected_sequence, snapshot,
                 overruns, returned, resyncs>>

\* It reads slot (expected_sequence mod N) into its own copy. The segment is
\* not locked: the stamp and the payload are two reads, in either order, and
\* the producer's writes may fall between them.
ShmReadSequence ==
  /\ r_pc \in {"read", "payload_read"}
  /\ snapshot' = [snapshot EXCEPT !.sequence = slots[ReaderSlot].sequence]
  /\ r_pc' = IF r_pc = "read" THEN "sequence_read" ELSE "check"
  /\ UNCHANGED <<mainVars, dlvVars, writerVars, expected_sequence, overruns,
                 returned, overwritten_reads, began_overwritten, resyncs>>

ShmReadPayload ==
  /\ r_pc \in {"read", "sequence_read"}
  /\ snapshot' = [snapshot EXCEPT !.payload = slots[ReaderSlot].payload]
  /\ r_pc' = IF r_pc = "read" THEN "payload_read" ELSE "check"
  /\ UNCHANGED <<mainVars, dlvVars, writerVars, expected_sequence, overruns,
                 returned, overwritten_reads, began_overwritten, resyncs>>

\* A variant that trusts the head counter alone.
SlotMatchesTrustsHead(slot, expected) == TRUE

\* The check of the slot's embedded sequence number against the cursor.
SlotMatches(slot, expected) == slot.sequence = expected

\* A variant that steps over the lost slot instead of going to the head.
ResyncCursorSkipsOne(h, expected) == expected + 1

\* Where the cursor goes after a mismatch: to the current head.
ResyncCursor(h, expected) == h

\* On a match the call returns the frame and the cursor advances by one; on a
\* mismatch the overrun is counted, the cursor is set to the current head and
\* the same call goes on waiting.
ShmCheck ==
  /\ r_pc = "check"
  /\ IF SlotMatches(snapshot, expected_sequence)
       THEN /\ returned' =
                 Append(returned, [expected |-> expected_sequence,
                                   sequence |-> snapshot.sequence,
                                   payload |-> snapshot.payload,
                                   began_overwritten |-> began_overwritten])
            /\ expected_sequence' = expected_sequence + 1
            /\ UNCHANGED <<overruns, resyncs>>
       ELSE /\ overruns' = overruns + 1
            /\ expected_sequence' = ResyncCursor(head, expected_sequence)
            /\ resyncs' = Append(resyncs, [from |-> expected_sequence,
                                           cursor |-> expected_sequence',
                                           head |-> head])
            /\ UNCHANGED returned
  /\ r_pc' = "wait"
  /\ UNCHANGED <<mainVars, dlvVars, writerVars, snapshot, overwritten_reads,
                 began_overwritten>>

NextShmem ==
  \/ WriterStamp \/ WriterFill \/ WriterPublish
  \/ ShmWait \/ ShmReadSequence \/ ShmReadPayload \/ ShmCheck

SpecShmem == InitShmem /\ [][NextShmem]_vars

\* A read in progress that began on a slot already stamped for another sequence.
OverwrittenReadInProgress == r_pc # "wait" /\ began_overwritten

\* What holds of the receive call under every interleaving: a slot that was
\* overwritten before the read began is never returned, its read ends in an
\* overrun counted and the cursor set to the head of that instant, after which
\* the same call is waiting again; a returned frame carries the stamp the
\* cursor expected; frames come back in increasing sequence; the call is
\* never stuck but for waiting on the producer, and main is still in its loop.
ShmDetectsOverwrittenBeforeRead ==
  /\ \A k \in 1..Len(returned) :
       /\ ~returned[k].began_overwritten
       /\ returned[k].sequence = returned[k].expected
  /\ \A j, k \in 1..Len(returned) : j < k => returned[j].expected < returned[k].expected
  /\ overwritten_reads <= overruns + (IF OverwrittenReadInProgress THEN 1 ELSE 0)
  /\ overruns = Len(resyncs)
  /\ \A k \in 1..Len(resyncs) :
       /\ resyncs[k].cursor = resyncs[k].head
       /\ resyncs[k].cursor > resyncs[k].from
  /\ expected_sequence <= head
  /\ r_pc # "wait" => ENABLED (ShmReadSequence \/ ShmReadPayload \/ ShmCheck)
  /\ pc = "rcv" /\ exit_status = 0

\* Frames that arrive before the model stops following the queue.
MaxArrivals == 5

\* The payload of a full frame, in bytes.
PayloadBytes == 1152

\* AudioFormats tried: 48000 Hz / 16 bit / 2 channels (6 ms a frame) and
\* 8000 Hz / 8 bit / 1 channel (144 ms a frame).
Formats ==
  { [sample_rate |-> 48000, sample_bits |-> 16, channels |-> 2],
    [sample_rate |-> 8000, sample_bits |-> 8, channels |-> 1] }

BytesPerSecond(fmt) == fmt.sample_rate * (fmt.sample_bits \div 8) * fmt.channels

RECURSIVE BufferedBytes(_)
BufferedBytes(q) ==
  IF q = << >> THEN 0 ELSE Head(q).payload_len + BufferedBytes(Tail(q))

\* A latency in milliseconds as the most bytes of format fmt it allows.
LatencyBytes(ms, fmt) == (ms * BytesPerSecond(fmt)) \div 1000

\* Buffered duration exceeds `ms`.
Exceeds(q, ms) ==
  q # << >> /\ BufferedBytes(q) > LatencyBytes(ms, Head(q).format)

\* A variant that never drops.
TrimNever(q, ms) == q

\* Drop the oldest queued frames until the buffered duration is back at `ms`.
RECURSIVE Trim(_, _)
Trim(q, ms) == IF Exceeds(q, ms) THEN Trim(Tail(q), ms) ELSE q

\* The latencies main accepts from -t and -l, and its defaults.
TargetLatencies ==
  {Atoi(a) : a \in {b \in TargetArgs : Atoi(b) >= 0}} \cup {DefaultTargetLatency}
MaxLatencies ==
  {Atoi(a) : a \in {b \in MaxArgs : Atoi(b) >= 0}} \cup {DefaultMaxLatency}

InitDelivery ==
  /\ target_latency_ms \in TargetLatencies
  /\ max_latency_ms \in MaxLatencies
  /\ MainAtLoop("Multicast", "Pulseaudio")
  /\ given = (IF target_latency_ms = DefaultTargetLatency THEN {} ELSE {"t"})
               \cup (IF max_latency_ms = DefaultMaxLatency THEN {} ELSE {"l"})
  /\ nopts = Cardinality(given)
  /\ ShmIdle
  /\ DeliveryIdle

\* Buffered duration, taken from the bytes queued, is at or below `ms`.
AtOrBelow(q, ms) == ~Exceeds(q, ms)

\* A frame arrives.
\*  - A format change flushes the queue and reconfigures the sink before the
\*    frame is queued.
\*  - If the buffered duration is at or below the target latency, the frame is
\*    queued and the call returns.
\*  - If the buffered duration exceeds the maximum latency, the oldest frames
\*    are dropped until it is back at the target latency.
\*  - Otherwise the frame is queued.
\* Whether the comparison with the maximum is made on the queue before the
\* arriving frame joins it or after is not stated: counts_arrival takes it
\* both ways.
DeliverFrame ==
  \E fmt \in Formats, counts_arrival \in BOOLEAN :
    LET frame == [id |-> arrivals + 1, format |-> fmt, payload_len |-> PayloadBytes]
        changed == prev_format # NoFormat /\ prev_format # fmt
        kept == IF changed THEN << >> ELSE queue
        flushed == IF changed THEN queue ELSE << >>
        queued == Append(kept, frame)
        over == /\ ~AtOrBelow(kept, target_latency_ms)
                /\ Exceeds(IF counts_arrival THEN queued ELSE kept, max_latency_ms)
        result == IF AtOrBelow(kept, target_latency_ms) THEN queued
                  ELSE IF ~over THEN queued
                  ELSE IF counts_arrival THEN Trim(queued, target_latency_ms)
                  ELSE Append(Trim(kept, target_latency_ms), frame)
    IN
      /\ arrivals < MaxArrivals
      /\ arrivals' = arrivals + 1
      /\ prev_format' = fmt
      /\ reconfigurations' = IF changed THEN reconfigurations + 1 ELSE reconfigurations
      /\ queue' = result
      /\ dropped' = dropped \o flushed \o SubSeq(queued, 1, Len(queued) - Len(result))
      /\ last_decision' = IF over THEN "drop" ELSE "enqueue"
      /\ UNCHANGED <<mainVars, shmVars, played>>

\* The sink takes the oldest queued frame.
SinkConsume ==
  /\ queue # << >>
  /\ played' = Append(played, Head(queue))
  /\ queue' = Tail(queue)
  /\ UNCHANGED <<mainVars, shmVars, prev_format, reconfigurations, dropped,
                 arrivals, last_decision>>

NextDelivery == DeliverFrame \/ SinkConsume

SpecDelivery == InitDelivery /\ [][NextDelivery]_vars

Larger(a, b) == IF a >= b THEN a ELSE b

InOrder(q) == \A j, k \in 1..Len(q) : j < k => q[j].id < q[k].id

\* The queue without its newest frame.
Front(q) == IF q = << >> THEN q ELSE SubSeq(q, 1, Len(q) - 1)


====
